---- MODULE Spec2Model ----
(***************************************************************************)
(* Model of the stepper bridge: StepperMQTTController (the bridge, its     *)
(* command router, its axis handlers and its status poller),               *)
(* ModbusConnection (RegisterLink) and MQTTService (PubSubClient).         *)
(*                                                                         *)
(* Threads: the caller of start()/stop() ("main"), the poll threads that   *)
(* start() launches, and the pub/sub client's delivery thread that runs    *)
(* _on_command, one message at a time.  A register transaction is modelled *)
(* by two steps, the request being sent and the response arriving, so that *)
(* overlapping transactions are visible.                                   *)
(***************************************************************************)
EXTENDS Integers, Sequences, FiniteSets, TLC

(***************************************************************************)
(* Bounds.                                                                 *)
(***************************************************************************)
\* number of poll threads that may exist at the same time
MaxPollers == 1

(***************************************************************************)
(* Text.  A topic is a sequence of characters; a segment is what split('/')*)
(* makes of it.                                                            *)
(***************************************************************************)
Digits == <<"0", "1", "2", "3", "4", "5", "6", "7", "8", "9">>

sStepper == <<"s", "t", "e", "p", "p", "e", "r">>
sAxis == <<"a", "x", "i", "s">>
sMove == <<"m", "o", "v", "e">>
sAbsolute == <<"a", "b", "s", "o", "l", "u", "t", "e">>
sRelative == <<"r", "e", "l", "a", "t", "i", "v", "e">>
sHome == <<"h", "o", "m", "e">>
sStop == <<"s", "t", "o", "p">>
sEnable == <<"e", "n", "a", "b", "l", "e">>
sDisable == <<"d", "i", "s", "a", "b", "l", "e">>
sReset == <<"r", "e", "s", "e", "t">>
sEnableServo == <<"e", "n", "a", "b", "l", "e", "_", "s", "e", "r", "v", "o">>
sDisableServo == <<"d", "i", "s", "a", "b", "l", "e", "_", "s", "e", "r", "v", "o">>
sServoSpeed == <<"s", "e", "r", "v", "o", "_", "s", "p", "e", "e", "d">>
sJog == <<"j", "o", "g">>
sAbc == <<"a", "b", "c">>

\* topic.split('/'): the segments between the slashes, empty ones included
RECURSIVE SplitFrom(_, _, _)
SplitFrom(s, i, cur) ==
    IF i > Len(s) THEN <<cur>>
    ELSE IF s[i] = "/" THEN <<cur>> \o SplitFrom(s, i + 1, <<>>)
    ELSE SplitFrom(s, i + 1, Append(cur, s[i]))

Split(s) == SplitFrom(s, 1, <<>>)

\* '/'.join(segments), how a client builds a topic
RECURSIVE Join(_)
Join(segs) ==
    IF Len(segs) = 0 THEN <<>>
    ELSE IF Len(segs) = 1 THEN segs[1]
    ELSE segs[1] \o <<"/">> \o Join(Tail(segs))

HasPrefixAt(s, i, pat) ==
    /\ i + Len(pat) - 1 <= Len(s)
    /\ \A k \in 1..Len(pat) : s[i + k - 1] = pat[k]

\* str.replace(pat, ''): every non-overlapping occurrence removed, left to right
RECURSIVE RemoveFrom(_, _, _)
RemoveFrom(s, i, pat) ==
    IF i > Len(s) THEN <<>>
    ELSE IF HasPrefixAt(s, i, pat) THEN RemoveFrom(s, i + Len(pat), pat)
    ELSE <<s[i]>> \o RemoveFrom(s, i + 1, pat)

Remove(s, pat) == RemoveFrom(s, 1, pat)

IsDigit(c) == \E d \in 1..10 : Digits[d] = c
DigitVal(c) == (CHOOSE d \in 1..10 : Digits[d] = c) - 1

RECURSIVE StripLeft(_)
StripLeft(s) == IF Len(s) > 0 /\ s[1] = " " THEN StripLeft(Tail(s)) ELSE s

RECURSIVE StripRight(_)
StripRight(s) ==
    IF Len(s) > 0 /\ s[Len(s)] = " " THEN StripRight(SubSeq(s, 1, Len(s) - 1)) ELSE s

RECURSIVE DigitsVal(_)
DigitsVal(s) ==
    IF Len(s) = 0 THEN 0
    ELSE 10 * DigitsVal(SubSeq(s, 1, Len(s) - 1)) + DigitVal(s[Len(s)])

\* int(text): surrounding blanks stripped, an optional sign, then one or more
\* decimal digits; anything else is a ValueError (ok = FALSE)
ParseInt(text) ==
    LET t == StripRight(StripLeft(text))
        signed == Len(t) > 0 /\ t[1] \in {"+", "-"}
        body == IF signed THEN Tail(t) ELSE t
        good == Len(body) > 0 /\ \A k \in 1..Len(body) : IsDigit(body[k])
    IN  IF good
        THEN [ok |-> TRUE,
              val |-> IF signed /\ t[1] = "-" THEN 0 - DigitsVal(body) ELSE DigitsVal(body)]
        ELSE [ok |-> FALSE, val |-> 0]

\* str(n) for the small non-negative device ids of the model
RECURSIVE IntText(_)
IntText(n) == IF n < 10 THEN <<Digits[n + 1]>> ELSE IntText(n \div 10) \o <<Digits[(n % 10) + 1]>>

\* a conversion that takes every text for a number, 0 when it is not one
ParseFloatLenient(text) == [ok |-> TRUE, val |-> 0]

\* float(text) followed by int(): blanks stripped, an optional sign, digits with
\* at most one '.', at least one digit; the value is truncated toward zero
ParseFloatTrunc(text) ==
    LET t == StripRight(StripLeft(text))
        signed == Len(t) > 0 /\ t[1] \in {"+", "-"}
        body == IF signed THEN Tail(t) ELSE t
        dots == {k \in 1..Len(body) : body[k] = "."}
        dot == IF dots = {} THEN Len(body) + 1 ELSE CHOOSE k \in dots : TRUE
        whole == SubSeq(body, 1, dot - 1)
        frac == SubSeq(body, dot + 1, Len(body))
        good == /\ Cardinality(dots) <= 1
                /\ Len(whole) + Len(frac) > 0
                /\ \A k \in 1..Len(whole) : IsDigit(whole[k])
                /\ \A k \in 1..Len(frac) : IsDigit(frac[k])
    IN  IF good
        THEN [ok |-> TRUE,
              val |-> IF signed /\ t[1] = "-" THEN 0 - DigitsVal(whole) ELSE DigitsVal(whole)]
        ELSE [ok |-> FALSE, val |-> 0]

(***************************************************************************)
(* Payloads.  A message body is empty, not JSON, a JSON scalar, or a JSON  *)
(* object; an object's fields map a name to an integer, a float or a       *)
(* string.                                                                 *)
(***************************************************************************)
NoFields == [n \in {} |-> 0]
IntV(n) == [t |-> "int", v |-> n, s |-> <<>>]
StrV(chars) == [t |-> "str", v |-> 0, s |-> chars]
\* a JSON number with a fraction, kept as its decimal text
FloatV(chars) == [t |-> "float", v |-> 0, s |-> chars]

EmptyBody == [kind |-> "empty", fields |-> NoFields]
GarbageBody == [kind |-> "garbage", fields |-> NoFields]
ScalarBody == [kind |-> "scalar", fields |-> NoFields]
ObjectBody(f) == [kind |-> "object", fields |-> f]

\* a parser that takes every body for an empty object
JsonLoadsLenient(body) ==
    [ok |-> TRUE, val |-> [kind |-> "object", fields |-> body.fields]]

\* json.loads(payload_str): a JSONDecodeError for an empty or malformed body
JsonLoads(body) ==
    IF body.kind \in {"empty", "garbage"}
    THEN [ok |-> FALSE, val |-> body]
    ELSE [ok |-> TRUE, val |-> body]

\* bool(params): an empty object is falsy
Truthy(params) == params.kind = "scalar" \/ DOMAIN params.fields # {}

\* params.get(name, default) on a dict
Get(params, name, default) ==
    IF name \in DOMAIN params.fields THEN params.fields[name] ELSE default

(***************************************************************************)
(* CommandRouter: _on_command up to the call of a handler, and the         *)
(* delegation methods that pick the Axis object.                           *)
(***************************************************************************)
Call(h, axis, params) == [h |-> h, axis |-> axis, params |-> params]
Routed(why, calls) == [why |-> why, calls |-> calls]

sMovePrefix == sMove \o <<"_">>

\* _move_absolute .. _reset_axis of the controller: axis0 or axis1, nothing else
DelegateChecked(h, axis_id, params) ==
    IF axis_id \in {0, 1} THEN <<Call(h, axis_id, params)>> ELSE <<>>

\* _enable_servo_mode, _disable_servo_mode, _set_servo_speed of the controller:
\* axis0 when axis_id is 0, axis1 otherwise
DelegateServo(h, axis_id, params) ==
    <<Call(h, IF axis_id = 0 THEN 0 ELSE 1, params)>>

\* _set_servo_speed(axis_id, params): returns early when params is falsy
DelegateServoSpeed(axis_id, params) ==
    IF ~Truthy(params) THEN <<>> ELSE DelegateServo("set_servo_speed", axis_id, params)

AxisDispatch(command, axis_id, params) ==
    IF command = sMovePrefix \o sAbsolute THEN
        Routed("axis", DelegateChecked("move_absolute", axis_id, params))
    ELSE IF command = sMovePrefix \o sRelative THEN
        Routed("axis", DelegateChecked("move_relative", axis_id, params))
    ELSE IF command = sHome THEN Routed("axis", DelegateChecked("home", axis_id, params))
    ELSE IF command = sStop THEN Routed("axis", DelegateChecked("stop", axis_id, params))
    ELSE IF command = sEnable THEN Routed("axis", DelegateChecked("enable", axis_id, params))
    ELSE IF command = sDisable THEN Routed("axis", DelegateChecked("disable", axis_id, params))
    ELSE IF command = sReset THEN Routed("axis", DelegateChecked("reset", axis_id, params))
    ELSE IF command = sEnableServo THEN
        Routed("axis", DelegateServo("enable_servo_mode", axis_id, params))
    ELSE IF command = sDisableServo THEN
        Routed("axis", DelegateServo("disable_servo_mode", axis_id, params))
    ELSE IF command = sServoSpeed THEN Routed("axis", DelegateServoSpeed(axis_id, params))
    ELSE Routed("unknown", <<>>)

DeviceDispatch(command, params) ==
    IF command = sEnable THEN
        Routed("device", <<Call("enable", 0, params), Call("enable", 1, params)>>)
    ELSE IF command = sDisable THEN
        Routed("device", <<Call("disable", 0, params), Call("disable", 1, params)>>)
    ELSE IF command = sReset THEN
        Routed("device", <<Call("reset", 0, params), Call("reset", 1, params)>>)
    ELSE Routed("unknown", <<>>)

\* the device id the router reads in the second segment: 'stepper' removed,
\* int() of the rest, 0 when that is not a number
StepperIdOf(seg) ==
    LET r == ParseInt(Remove(seg, sStepper)) IN IF r.ok THEN r.val ELSE 0

\* _on_command: which Axis methods are called, in order, and why none is
OnCommandRoute(topic, body, slave) ==
    LET topic_parts == Split(topic)
        n == Len(topic_parts)
        payload == JsonLoads(body)
    IN  IF n < 3 THEN Routed("short", <<>>)
        ELSE IF StepperIdOf(topic_parts[2]) # slave THEN Routed("other", <<>>)
        ELSE IF ~payload.ok THEN Routed("json", <<>>)
        ELSE IF n = 3 THEN DeviceDispatch(topic_parts[3], payload.val)
        ELSE IF n >= 5 /\ topic_parts[3] = sAxis THEN
            LET axis == ParseInt(topic_parts[4])
                command == IF n >= 6 /\ topic_parts[5] = sMove
                           THEN sMovePrefix \o topic_parts[6]
                           ELSE topic_parts[5]
            IN  IF ~axis.ok THEN Routed("axis_id", <<>>)
                ELSE AxisDispatch(command, axis.val, payload.val)
        ELSE Routed("form", <<>>)

(***************************************************************************)
(* Subscriptions: _subscribe_to_commands registers _on_command for each    *)
(* filter; the client calls it for the messages whose topic matches one.   *)
(***************************************************************************)
sPlus == <<"+">>

\* the filters of _subscribe_to_commands, as segments
CommandFilters ==
    {<<sStepper, sPlus, sAxis, sPlus, sMove, sAbsolute>>,
     <<sStepper, sPlus, sAxis, sPlus, sMove, sRelative>>,
     <<sStepper, sPlus, sAxis, sPlus, sHome>>,
     <<sStepper, sPlus, sAxis, sPlus, sStop>>,
     <<sStepper, sPlus, sAxis, sPlus, sEnable>>,
     <<sStepper, sPlus, sAxis, sPlus, sDisable>>,
     <<sStepper, sPlus, sAxis, sPlus, sReset>>,
     <<sStepper, sPlus, sAxis, sPlus, sEnableServo>>,
     <<sStepper, sPlus, sAxis, sPlus, sDisableServo>>,
     <<sStepper, sPlus, sAxis, sPlus, sServoSpeed>>,
     <<sStepper, sPlus, sEnable>>,
     <<sStepper, sPlus, sDisable>>,
     <<sStepper, sPlus, sReset>>}

\* a topic matches a filter without '#': as many levels, each equal to the
\* filter's or under a '+'
TopicMatchesSub(sub, parts) ==
    /\ Len(sub) = Len(parts)
    /\ \A k \in 1..Len(sub) : sub[k] = sPlus \/ sub[k] = parts[k]

\* a client that hands every message to the callback
CallbackMatchesAny(topic) == TRUE

\* message_callback_add(filter, _on_command): the callback runs for a message
\* when one of its filters matches the topic
CallbackMatches(topic) ==
    LET parts == Split(topic) IN \E sub \in CommandFilters : TopicMatchesSub(sub, parts)

(***************************************************************************)
(* Register map and transactions.                                          *)
(***************************************************************************)
STATUS_REG == 13
AXIS0_POSITION_REG == 17
OP_MOVE_ABSOLUTE == 258
OP_ENABLE_SERVO == 513
OP_DISABLE_SERVO == 514
OP_SERVO_SPEED == 515

AXIS0_LIMIT_NEG == 1
AXIS0_LIMIT_POS == 2
AXIS0_BUSY == 4
AXIS0_DONE == 8
AXIS0_HOMED == 16
AXIS0_ERROR == 32
AXIS1_LIMIT_NEG == 256
AXIS1_LIMIT_POS == 512
AXIS1_BUSY == 1024
AXIS1_DONE == 2048
AXIS1_HOMED == 4096
AXIS1_ERROR == 8192

\* the holding registers the bridge reads: the status block and the positions
RegisterAddrs == 0..20

\* a & b and a | b on non-negative integers
RECURSIVE BitAnd(_, _)
BitAnd(a, b) ==
    IF a = 0 \/ b = 0 THEN 0
    ELSE (a % 2) * (b % 2) + 2 * BitAnd(a \div 2, b \div 2)

RECURSIVE BitOr(_, _)
BitOr(a, b) ==
    IF a = 0 THEN b
    ELSE IF b = 0 THEN a
    ELSE (IF a % 2 = 1 \/ b % 2 = 1 THEN 1 ELSE 0) + 2 * BitOr(a \div 2, b \div 2)

\* An integer of the store is kept as its two digits in base 65536, hi and lo:
\* it stands for hi * 65536 + lo, which can exceed the integers of the checker.
PyInt(n) == [hi |-> n \div 65536, lo |-> n % 65536]
\* x << 16
ShiftLeft16(x) == [hi |-> x, lo |-> 0]
\* big | y for a y below 65536
OrWord(big, y) == [hi |-> big.hi, lo |-> BitOr(big.lo, y)]

\* a combination that takes the first register for the high word
CombineHighFirst(position_regs, i) ==
    OrWord(ShiftLeft16(position_regs[i]), position_regs[i + 1])

\* (position_regs[i + 1] << 16) | position_regs[i], registers counted from 1
Combine(position_regs, i) ==
    OrWord(ShiftLeft16(position_regs[i + 1]), position_regs[i])

\* a decoding that reads axis 1's flags in axis 0's byte as well
DecodeStatusLowByte(status_word) ==
    LET low == [limit_neg |-> BitAnd(status_word, AXIS0_LIMIT_NEG) # 0,
                limit_pos |-> BitAnd(status_word, AXIS0_LIMIT_POS) # 0,
                is_moving |-> BitAnd(status_word, AXIS0_BUSY) # 0,
                is_done |-> BitAnd(status_word, AXIS0_DONE) # 0,
                is_homed |-> BitAnd(status_word, AXIS0_HOMED) # 0,
                has_error |-> BitAnd(status_word, AXIS0_ERROR) # 0,
                is_servo_mode |-> BitAnd(status_word, 64) # 0,
                extra |-> FALSE]
    IN  <<low, low>>

\* axis0_status_dict and axis1_status_dict of a status word; extra tells the
\* keys is_stalled and is_enabled, which only the default dicts have
DecodeStatus(status_word) ==
    <<[limit_neg |-> BitAnd(status_word, AXIS0_LIMIT_NEG) # 0,
       limit_pos |-> BitAnd(status_word, AXIS0_LIMIT_POS) # 0,
       is_moving |-> BitAnd(status_word, AXIS0_BUSY) # 0,
       is_done |-> BitAnd(status_word, AXIS0_DONE) # 0,
       is_homed |-> BitAnd(status_word, AXIS0_HOMED) # 0,
       has_error |-> BitAnd(status_word, AXIS0_ERROR) # 0,
       is_servo_mode |-> BitAnd(status_word, 64) # 0,
       extra |-> FALSE],
      [limit_neg |-> BitAnd(status_word, AXIS1_LIMIT_NEG) # 0,
       limit_pos |-> BitAnd(status_word, AXIS1_LIMIT_POS) # 0,
       is_moving |-> BitAnd(status_word, AXIS1_BUSY) # 0,
       is_done |-> BitAnd(status_word, AXIS1_DONE) # 0,
       is_homed |-> BitAnd(status_word, AXIS1_HOMED) # 0,
       has_error |-> BitAnd(status_word, AXIS1_ERROR) # 0,
       is_servo_mode |-> BitAnd(status_word, 16384) # 0,
       extra |-> FALSE]>>

\* the dicts of a tick whose status read gave nothing
DefaultStatus ==
    LET d == [limit_neg |-> FALSE, limit_pos |-> FALSE, is_moving |-> FALSE,
              is_done |-> FALSE, is_homed |-> FALSE, has_error |-> FALSE,
              is_servo_mode |-> FALSE, extra |-> TRUE]
    IN  <<d, d>>

\* the two status dicts of a tick: status_values is <<>> for None
AxisStatusDicts(status_values) ==
    IF Len(status_values) > 0 THEN DecodeStatus(status_values[1]) ELSE DefaultStatus

\* self.status["error"] of a tick that read a status word
ErrorOf(dicts) ==
    IF dicts[1].has_error \/ dicts[2].has_error THEN "Error detected" ELSE "none"

Tx(fn, addr, count, words, slave) ==
    [fn |-> fn, addr |-> addr, count |-> count, words |-> words, slave |-> slave]
NoTx == Tx("none", 0, 0, <<>>, 0)

\* ModbusConnection.read_registers(address, count, slave_id)
ReadRegisters(address, count, slave_id) ==
    Tx("read_holding_registers", address, count, <<>>, slave_id)
\* ModbusConnection.write_registers(address, values, slave_id)
WriteRegisters(address, values, slave_id) ==
    Tx("write_registers", address, Len(values), values, slave_id)
\* ModbusConnection.write_register(address, value, slave_id)
WriteRegister(address, value, slave_id) ==
    Tx("write_register", address, 1, <<IntV(value)>>, slave_id)
\* the call of a method ModbusConnection does not have
MissingMethod == Tx("missing", 0, 0, <<>>, 0)

\* what write_registers returns for a response: True unless it is an error
WriteRegistersResult(isError) == ~isError
\* what write_register returns for a response: result.isError()
WriteRegisterResult(isError) == isError

(***************************************************************************)
(* AxisController: the part of each Axis method before it takes the lock.  *)
(* raise: an exception leaves the method (params is not a dict, or the     *)
(* position is not an integer); early: the method returns False on its own.*)
(***************************************************************************)
Prepared(raise, early, command, tx) ==
    [raise |-> raise, early |-> early, command |-> command, tx |-> tx]
NoCall == Prepared(FALSE, FALSE, "", NoTx)

IsDict(params) == params.kind = "object"

\* an absolute move that writes the high word of the target first
PrepareMoveAbsoluteHighFirst(axis_id, params, slave) ==
    LET target == Get(params, "position", IntV(0))
    IN  IF ~IsDict(params) \/ target.t # "int"
        THEN Prepared(TRUE, FALSE, "move_absolute", NoTx)
        ELSE Prepared(FALSE, FALSE, "move_absolute",
                 WriteRegisters(0, <<IntV(OP_MOVE_ABSOLUTE), IntV(axis_id),
                                    IntV((target.v \div 65536) % 65536),
                                    IntV(target.v % 65536),
                                    IntV(0), IntV(0),
                                    Get(params, "speed", IntV(1000)),
                                    Get(params, "acceleration", IntV(1000)),
                                    Get(params, "deceleration", IntV(1000))>>, slave))

PrepareMoveAbsolute(axis_id, params, slave) ==
    LET target == Get(params, "position", IntV(0))
        speed == Get(params, "speed", IntV(1000))
        accel == Get(params, "acceleration", IntV(1000))
        decel == Get(params, "deceleration", IntV(1000))
    IN  IF ~IsDict(params) \/ target.t # "int"
        THEN Prepared(TRUE, FALSE, "move_absolute", NoTx)
        ELSE Prepared(FALSE, FALSE, "move_absolute",
                 WriteRegisters(0, <<IntV(OP_MOVE_ABSOLUTE), IntV(axis_id),
                                    IntV(target.v % 65536),
                                    IntV((target.v \div 65536) % 65536),
                                    IntV(0), IntV(0), speed, accel, decel>>, slave))

PrepareMoveRelative(axis_id, params, slave) ==
    IF ~IsDict(params)
    THEN Prepared(TRUE, FALSE, "move_relative", NoTx)
    ELSE Prepared(FALSE, FALSE, "move_relative", MissingMethod)

PrepareHome(axis_id, params, slave) ==
    IF ~IsDict(params)
    THEN Prepared(TRUE, FALSE, "home", NoTx)
    ELSE Prepared(FALSE, FALSE, "home", WriteRegister(slave, 0, 1))

PrepareStop(axis_id, params, slave) ==
    Prepared(FALSE, FALSE, "stop", WriteRegister(slave, 0, 0))

PrepareEnable(axis_id, params, slave) ==
    Prepared(FALSE, FALSE, "enable", WriteRegister(slave, 4, 1))

PrepareDisable(axis_id, params, slave) ==
    Prepared(FALSE, FALSE, "disable", WriteRegister(slave, 4, 0))

PrepareReset(axis_id, params, slave) ==
    Prepared(FALSE, FALSE, "reset", WriteRegister(slave, 5, 1))

PrepareEnableServo(axis_id, params, slave) ==
    LET max_speed == Get(params, "max_speed", IntV(5000))
        accel == Get(params, "acceleration", IntV(1000))
    IN  IF ~IsDict(params)
        THEN Prepared(TRUE, FALSE, "enable_servo_mode", NoTx)
        ELSE Prepared(FALSE, FALSE, "enable_servo_mode",
                 WriteRegisters(0, <<IntV(OP_ENABLE_SERVO), IntV(axis_id),
                                    max_speed, accel>>, slave))

PrepareDisableServo(axis_id, params, slave) ==
    Prepared(FALSE, FALSE, "disable_servo_mode",
        WriteRegisters(0, <<IntV(OP_DISABLE_SERVO), IntV(axis_id)>>, slave))

PrepareServoSpeed(axis_id, params, slave) ==
    LET given == Get(params, "speed", IntV(0))
        parsed == ParseFloatTrunc(given.s)
        speed == IF given.t \in {"str", "float"} THEN IntV(parsed.val) ELSE given
    IN  IF ~IsDict(params) THEN Prepared(TRUE, FALSE, "set_servo_speed", NoTx)
        ELSE IF given.t = "str" /\ ~parsed.ok
        THEN Prepared(FALSE, TRUE, "set_servo_speed", NoTx)
        ELSE Prepared(FALSE, FALSE, "set_servo_speed",
                 WriteRegisters(0, <<IntV(OP_SERVO_SPEED), IntV(axis_id), speed>>, slave))

Prepare(call, slave) ==
    CASE call.h = "move_absolute" -> PrepareMoveAbsolute(call.axis, call.params, slave)
      [] call.h = "move_relative" -> PrepareMoveRelative(call.axis, call.params, slave)
      [] call.h = "home" -> PrepareHome(call.axis, call.params, slave)
      [] call.h = "stop" -> PrepareStop(call.axis, call.params, slave)
      [] call.h = "enable" -> PrepareEnable(call.axis, call.params, slave)
      [] call.h = "disable" -> PrepareDisable(call.axis, call.params, slave)
      [] call.h = "reset" -> PrepareReset(call.axis, call.params, slave)
      [] call.h = "enable_servo_mode" -> PrepareEnableServo(call.axis, call.params, slave)
      [] call.h = "disable_servo_mode" -> PrepareDisableServo(call.axis, call.params, slave)
      [] call.h = "set_servo_speed" -> PrepareServoSpeed(call.axis, call.params, slave)

(***************************************************************************)
(* State.                                                                  *)
(***************************************************************************)
VARIABLES
    slave_id,        \* StepperMQTTController.slave_id
    running,         \* StepperMQTTController.running
    poll_thread,     \* StepperMQTTController.poll_thread: 0 is None, else a poller
    lock,            \* StepperMQTTController.lock: 0 is free, else the holder
    connected,       \* ModbusConnection._connected
    statusConnected, \* StepperMQTTController.status["connected"]
    client,          \* MQTTService.client: "none", "connected" or "disconnected"
    subscribed,      \* the command topics are subscribed on MQTTService.client
    leaked,          \* a replaced client still runs its loop with its subscriptions
    linkUp,          \* environment: the serial device answers
    mpc,             \* where the caller of start()/stop() is
    lastCall,        \* the call of start()/stop() that returned last
    startedOk,       \* some start() has launched a poller
    ppc,             \* where each poll thread is
    inflight,        \* the register transaction each thread has outstanding
    cpc,             \* where the delivery thread is in _on_command
    msg,             \* the message _on_command is handling
    routed,          \* why the router called no handler, or that it called some
    todo,            \* the Axis method calls _on_command still has to make
    cur,             \* the Axis method call in progress
    result,          \* the value the write returned to the Axis method
    acks,            \* the acknowledgments published for msg
    writes,          \* how each write called for msg ended: "ok", "failed", "raised"
    cmdTx,           \* the register transactions sent for msg
    regs,            \* environment: the device's holding registers
    positions,       \* StepperMQTTController.positions
    statusError,     \* StepperMQTTController.status["error"], "none" for None
    tick,            \* _poll_status: status_values and position_regs, while in use
    pub              \* what each poller published in the tick it ends

vars == <<slave_id, running, poll_thread, lock, connected, statusConnected, client,
          subscribed, leaked, linkUp, mpc, lastCall, startedOk, ppc, inflight,
          cpc, msg, routed, todo, cur, result, acks, writes, cmdTx,
          regs, positions, statusError, tick, pub>>

storeVars == <<positions, statusError>>
dataVars == <<regs, positions, statusError, tick, pub>>

bridgeVars == <<slave_id, running, poll_thread, connected, statusConnected, client,
                subscribed, leaked>>
mainVars == <<mpc, lastCall, startedOk>>
cmdVars == <<cpc, msg, routed, todo, cur, result, acks, writes, cmdTx>>

Pollers == 1..MaxPollers
\* the delivery thread of the pub/sub client
CB == MaxPollers + 1
Threads == 1..CB

NoMsg == [topic |-> <<>>, body |-> EmptyBody]
\* status_values and position_regs before they are read, <<>> for None
NoTick == [status_values |-> <<>>, position_regs |-> <<>>]
Ack(axis, command, success) == [axis |-> axis, command |-> command, success |-> success]

(***************************************************************************)
(* Inputs.                                                                 *)
(***************************************************************************)
DefaultSlaveId == 1
SlaveIds == {0, 1}

DeviceSegs == {IntText(0), IntText(1), IntText(2), sAbc, sStepper \o IntText(1)}
AxisSegs == {IntText(0), IntText(1), IntText(2), <<"x">>}
ActionSegs == {<<sMove, sAbsolute>>, <<sMove, sRelative>>, <<sHome>>, <<sStop>>,
               <<sEnable>>, <<sDisable>>, <<sReset>>, <<sEnableServo>>,
               <<sDisableServo>>, <<sServoSpeed>>, <<sJog>>,
               <<sMovePrefix \o sAbsolute>>}

AxisTopics == {Join(<<sStepper, d, sAxis, a>> \o act) :
                   d \in DeviceSegs, a \in AxisSegs, act \in ActionSegs}
DeviceTopics == {Join(<<sStepper, d, c>>) :
                     d \in DeviceSegs, c \in {sEnable, sDisable, sReset, sJog}}
\* topics that are not of the grammar: too short, four segments, no 'axis'
OddTopics == {Join(<<sStepper, d>>) : d \in DeviceSegs}
             \cup {Join(<<sStepper>>)}
             \cup {Join(<<sStepper, d, sAxis, IntText(0)>>) : d \in DeviceSegs}
             \cup {Join(<<sStepper, d, sJog, IntText(0), sStop>>) : d \in DeviceSegs}
RouteTopics == AxisTopics \cup DeviceTopics \cup OddTopics

RouteBodies ==
    {EmptyBody, GarbageBody, ScalarBody, ObjectBody(NoFields),
     ObjectBody([n \in {"speed"} |-> IntV(500)])}

\* the messages of the concurrent specification, all for the default device: a
\* multi-word write, the call of the missing method and a single-word write
ConcTopics ==
    {Join(<<sStepper, IntText(1), sAxis, IntText(0), sMove, sAbsolute>>),
     Join(<<sStepper, IntText(1), sAxis, IntText(0), sMove, sRelative>>),
     Join(<<sStepper, IntText(1), sAxis, IntText(1), sStop>>)}
ConcBodies == {ObjectBody(NoFields)}

\* the messages of the parameter specification: moves and servo speeds for
\* both axes, addressed to device 0 or 1, with the parameter values below
ArgTopics ==
    {Join(<<sStepper, d, sAxis, a>> \o act) :
         d \in {IntText(0), IntText(1)}, a \in {IntText(0), IntText(1)},
         act \in {<<sMove, sAbsolute>>, <<sServoSpeed>>}}

Fields1(n1, v1) == [n \in {n1} |-> v1]
Fields2(n1, v1, n2, v2) == [n \in {n1, n2} |-> IF n = n1 THEN v1 ELSE v2]

ArgBodies ==
    {ObjectBody(NoFields),
     ObjectBody(Fields2("position", IntV(1000), "speed", IntV(500))),
     ObjectBody(Fields1("position", IntV(0 - 1))),
     ObjectBody(Fields1("position", IntV(70000))),
     ObjectBody([n \in {"position", "speed", "acceleration", "deceleration"} |->
                    CASE n = "position" -> IntV(0 - 70000)
                      [] n = "speed" -> IntV(200)
                      [] n = "acceleration" -> IntV(300)
                      [] n = "deceleration" -> IntV(400)]),
     ObjectBody(Fields1("position", StrV(sAbc))),
     ObjectBody(Fields1("speed", IntV(12))),
     ObjectBody(Fields1("speed", IntV(0 - 12))),
     ObjectBody(Fields1("speed", FloatV(<<"1", "2", ".", "7">>))),
     ObjectBody(Fields1("speed", FloatV(<<"-", "3", ".", "9">>))),
     ObjectBody(Fields1("speed", StrV(<<"1", "2", ".", "7">>))),
     ObjectBody(Fields1("speed", StrV(<<"-", "3", ".", "9">>))),
     ObjectBody(Fields1("speed", StrV(<<" ", "7", " ">>))),
     ObjectBody(Fields1("speed", StrV(sAbc))),
     ObjectBody(Fields1("speed", StrV(<<"1", ".", "2", ".", "3">>))),
     ObjectBody(Fields1("speed", StrV(<<>>)))}

\* the messages of the servo specification: the relative move and the servo
\* actions for axes 0, 1 and 2, addressed to device 0 or 1
ServoTopics ==
    {Join(<<sStepper, d, sAxis, a>> \o act) :
         d \in {IntText(0), IntText(1)}, a \in {IntText(0), IntText(1), IntText(2)},
         act \in {<<sMove, sRelative>>, <<sEnableServo>>, <<sDisableServo>>,
                  <<sServoSpeed>>}}

ServoBodies ==
    {ObjectBody(NoFields),
     ObjectBody(Fields1("max_speed", IntV(3000))),
     ObjectBody(Fields2("max_speed", IntV(4000), "acceleration", IntV(700))),
     ObjectBody(Fields1("max_speed", IntV(70000))),
     ObjectBody(Fields1("distance", IntV(250))),
     ObjectBody(Fields2("distance", IntV(0 - 40), "speed", IntV(200))),
     ObjectBody(Fields1("speed", IntV(12))),
     ObjectBody(Fields1("speed", StrV(<<"1", "2", ".", "7">>)))}

\* the messages of the position specification: absolute moves of axis 0 of the
\* default device to the ends of the signed 32-bit range, to the positions
\* around a change of the high word, and to a few others
PositionTopics == {Join(<<sStepper, IntText(1), sAxis, IntText(0), sMove, sAbsolute>>)}

TargetPositions ==
    {0, 1, 1000, 65535, 65536, 70000, 2147483647,
     0 - 1, 0 - 65536, 0 - 70000, 0 - 2147483647, (0 - 2147483647) - 1}

PositionBodies == {ObjectBody(Fields1("position", IntV(p))) : p \in TargetPositions}

\* a device whose registers are 0 but for the word at address 1, the status
\* register and the four position registers
Device(first, status, pos) ==
    [r \in RegisterAddrs |->
        IF r = 1 THEN first
        ELSE IF r = STATUS_REG THEN status
        ELSE IF r \in AXIS0_POSITION_REG..(AXIS0_POSITION_REG + 3)
        THEN pos[r - AXIS0_POSITION_REG + 1]
        ELSE 0]

QuietDevice == Device(0, 0, <<0, 0, 0, 0>>)

\* status words: none, each bit alone, all, each axis's byte, the examples
StatusWords == {0, 65535, 255, 65280, 16191, 16448, 32896} \cup {2 ^ k : k \in 0..15}
\* register words of a position: the ends of the range, the sign bit, examples
PositionWords == {0, 1, 5, 32767, 32768, 65535}

\* the devices of the poller specification: every status word read as the
\* first word of the status block, and every pair of position words for axis 0
\* with a few pairs for axis 1
PollDevices ==
    {Device(w, 0, <<0, 0, 0, 0>>) : w \in StatusWords}
    \cup {Device(0, w, <<0, 0, 0, 0>>) : w \in {1, 32}}
    \cup {Device(0, 0, <<a, b>> \o q) :
              a \in PositionWords, b \in PositionWords,
              q \in {<<0, 0>>, <<0, 1>>, <<7, 0>>, <<65535, 65535>>}}

(***************************************************************************)
(* Construction.                                                           *)
(***************************************************************************)
\* the bridge after construction, for the poll threads that can be launched
InitThreads(ids, pollers) ==
    /\ slave_id \in ids
    /\ running = FALSE
    /\ poll_thread = 0
    /\ lock = 0
    /\ connected = FALSE
    /\ statusConnected = FALSE
    /\ client = "none"
    /\ subscribed = FALSE
    /\ leaked = FALSE
    /\ linkUp \in BOOLEAN
    /\ mpc = "idle"
    /\ lastCall = "none"
    /\ startedOk = FALSE
    /\ ppc = [p \in pollers |-> "none"]
    /\ inflight = [t \in Threads \cup pollers |-> NoTx]
    /\ cpc = "idle"
    /\ msg = NoMsg
    /\ routed = ""
    /\ todo = <<>>
    /\ cur = NoCall
    /\ result = FALSE
    /\ acks = <<>>
    /\ writes = <<>>
    /\ cmdTx = 0
    /\ positions = [axis_0 |-> PyInt(0), axis_1 |-> PyInt(0)]
    /\ statusError = "none"
    /\ tick = [p \in pollers |-> NoTick]
    /\ pub = [p \in pollers |-> <<>>]

InitWith(ids) == InitThreads(ids, Pollers)

Init == InitWith({DefaultSlaveId}) /\ regs = QuietDevice

(***************************************************************************)
(* RegisterLink.                                                           *)
(***************************************************************************)
\* ModbusConnection.connect(): True when already connected, else the outcome of
\* opening the port
ConnectResult == connected \/ linkUp

\* how an outstanding transaction can end: a response, an error response, or an
\* exception of the transport
Outcomes ==
    (IF linkUp THEN {"ok"} ELSE {}) \cup
    (IF ~linkUp \/ ~connected THEN {"err", "raise"} ELSE {})

\* a lock that is taken without waiting for its holder
AcquireNoWait(t) == lock' = t

\* with self.lock: wait until the lock is free, then hold it
Acquire(t) == lock = 0 /\ lock' = t
Release(t) == lock' = 0

LinkFlip ==
    /\ linkUp' = ~linkUp
    /\ UNCHANGED <<bridgeVars, mainVars, cmdVars, lock, ppc, inflight, dataVars>>

(***************************************************************************)
(* Bridge lifecycle: start() and stop(), run by one caller.                *)
(***************************************************************************)
FreeSlots == {p \in DOMAIN ppc : ppc[p] \in {"none", "dead"}}

\* start(), self.mqtt.start(): a new client replaces the old one and connects
\* to the broker; a refused connection raises out of start()
StartMqtt ==
    /\ mpc = "idle"
    /\ FreeSlots # {}
    /\ leaked' = (leaked \/ (client = "connected" /\ subscribed))
    /\ subscribed' = FALSE
    /\ \E ok \in BOOLEAN :
        IF ok
        THEN client' = "connected" /\ mpc' = "start_connect" /\ lastCall' = lastCall
        ELSE client' = "disconnected" /\ mpc' = "idle" /\ lastCall' = "start_raised"
    /\ UNCHANGED <<slave_id, running, poll_thread, connected, statusConnected,
                   startedOk, linkUp, cmdVars, lock, ppc, inflight,
                   dataVars>>

\* a start() that goes on whatever the connect returned
NeverAbort(ok) == FALSE

\* start() returns False, before it subscribes, when the connect failed
AbortOnConnectFailure(ok) == ~ok

\* start(), self.modbus.connect() and the return on failure
StartConnect ==
    /\ mpc = "start_connect"
    /\ connected' = ConnectResult
    /\ statusConnected' = ConnectResult
    /\ IF AbortOnConnectFailure(ConnectResult)
       THEN mpc' = "idle" /\ lastCall' = "start_failed"
       ELSE mpc' = "start_subscribe" /\ lastCall' = lastCall
    /\ UNCHANGED <<slave_id, running, poll_thread, client, subscribed, leaked,
                   startedOk, linkUp, cmdVars, lock, ppc, inflight,
                   dataVars>>

\* start(), self._subscribe_to_commands()
StartSubscribe ==
    /\ mpc = "start_subscribe"
    /\ subscribed' = (client # "none")
    /\ mpc' = "start_launch"
    /\ UNCHANGED <<slave_id, running, poll_thread, connected, statusConnected, client,
                   leaked, lastCall, startedOk, linkUp, cmdVars, lock, ppc, inflight,
                   dataVars>>

\* start(), self.running = True and the launch of a new poll thread
StartLaunch ==
    /\ mpc = "start_launch"
    /\ running' = TRUE
    /\ \E p \in FreeSlots :
        /\ ppc' = [ppc EXCEPT ![p] = "loop"]
        /\ poll_thread' = p
    /\ mpc' = "idle"
    /\ lastCall' = "start_ok"
    /\ startedOk' = TRUE
    /\ UNCHANGED <<slave_id, connected, statusConnected, client, subscribed, leaked,
                   linkUp, cmdVars, lock, inflight, dataVars>>

\* stop(), self.running = False
StopSignal ==
    /\ mpc = "idle"
    /\ running' = FALSE
    /\ mpc' = IF poll_thread = 0 THEN "stop_disconnect" ELSE "stop_join"
    /\ UNCHANGED <<slave_id, poll_thread, connected, statusConnected, client, subscribed,
                   leaked, lastCall, startedOk, linkUp, cmdVars, lock, ppc, inflight,
                   dataVars>>

\* join(timeout=1.0) returns when the thread has ended or when the timeout has passed
JoinReturns(p, timedOut) == ppc[p] = "dead" \/ timedOut

\* stop(), self.poll_thread.join(timeout=1.0)
StopJoin ==
    /\ mpc = "stop_join"
    /\ \E timedOut \in BOOLEAN : JoinReturns(poll_thread, timedOut)
    /\ mpc' = "stop_disconnect"
    /\ UNCHANGED <<bridgeVars, lastCall, startedOk, linkUp, cmdVars, lock, ppc, inflight,
                   dataVars>>

\* stop(), self.modbus.disconnect()
StopDisconnect ==
    /\ mpc = "stop_disconnect"
    /\ connected' = FALSE
    /\ mpc' = "stop_mqtt"
    /\ UNCHANGED <<slave_id, running, poll_thread, statusConnected, client, subscribed,
                   leaked, lastCall, startedOk, linkUp, cmdVars, lock, ppc, inflight,
                   dataVars>>

\* which stop() returns: the first one on a bridge never started, one that
\* follows another stop(), or one that follows a start()
StopKind ==
    IF lastCall = "none" THEN "stop_fresh"
    ELSE IF lastCall \in {"stop", "stop_again", "stop_fresh"} THEN "stop_again"
    ELSE "stop"

\* stop(), self.mqtt.stop(): loop_stop() waits for the delivery thread to leave
\* the callback it is in, then the client disconnects
StopMqtt ==
    /\ mpc = "stop_mqtt"
    /\ cpc = "idle" \/ leaked \/ client # "connected"
    /\ client' = IF client = "none" THEN "none" ELSE "disconnected"
    /\ mpc' = "idle"
    /\ lastCall' = StopKind
    /\ UNCHANGED <<slave_id, running, poll_thread, connected, statusConnected, subscribed,
                   leaked, startedOk, linkUp, cmdVars, lock, ppc, inflight,
                   dataVars>>

(***************************************************************************)
(* StatusPoller: _poll_status, one thread per launch.                      *)
(***************************************************************************)
PollerFrame == UNCHANGED <<slave_id, running, poll_thread, client, subscribed, leaked,
                           mainVars, linkUp, cmdVars, regs>>

\* what the device answers to a read: the registers from the address on
Response(tx) == [k \in 1..tx.count |-> regs[tx.addr + k - 1]]

\* the four publications of a tick
Publications(dicts, stored) ==
    <<[kind |-> "status", slave |-> slave_id, axis |-> 0, status |-> dicts[1],
       position |-> PyInt(0)],
      [kind |-> "status", slave |-> slave_id, axis |-> 1, status |-> dicts[2],
       position |-> PyInt(0)],
      [kind |-> "position", slave |-> slave_id, axis |-> 0, status |-> dicts[1],
       position |-> stored.axis_0],
      [kind |-> "position", slave |-> slave_id, axis |-> 1, status |-> dicts[2],
       position |-> stored.axis_1]>>

\* a loop that does not look at the flag
PollLoopForever(p) ==
    /\ ppc[p] = "loop"
    /\ ppc' = [ppc EXCEPT ![p] = "acquire"]
    /\ UNCHANGED <<connected, statusConnected, lock, inflight, storeVars, tick, pub>>
    /\ PollerFrame

\* while self.running
PollLoop(p) ==
    /\ ppc[p] = "loop"
    /\ ppc' = [ppc EXCEPT ![p] = IF running THEN "acquire" ELSE "dead"]
    /\ UNCHANGED <<connected, statusConnected, lock, inflight, storeVars, tick, pub>>
    /\ PollerFrame

\* with self.lock
PollAcquire(p) ==
    /\ ppc[p] = "acquire"
    /\ Acquire(p)
    /\ ppc' = [ppc EXCEPT ![p] = "status_send"]
    /\ UNCHANGED <<connected, statusConnected, inflight, storeVars, tick, pub>>
    /\ PollerFrame

\* read_registers(1, STATUS_REG, slave_id): None at once when not connected
PollStatusSend(p) ==
    /\ ppc[p] = "status_send"
    /\ IF connected
       THEN /\ inflight' = [inflight EXCEPT ![p] = ReadRegisters(1, STATUS_REG, slave_id)]
            /\ ppc' = [ppc EXCEPT ![p] = "status_wait"]
       ELSE /\ inflight' = inflight
            /\ ppc' = [ppc EXCEPT ![p] = "pos_send"]
    /\ UNCHANGED <<connected, statusConnected, lock, storeVars, tick, pub>>
    /\ PollerFrame

\* the status response: its first word decoded, or None, or an exception that
\* leaves the tick
PollStatusResponse(p) ==
    /\ ppc[p] = "status_wait"
    /\ inflight' = [inflight EXCEPT ![p] = NoTx]
    /\ \E o \in Outcomes :
        CASE o = "ok" -> /\ tick' = [tick EXCEPT ![p].status_values = Response(inflight[p])]
                         /\ statusConnected' = TRUE
                         /\ statusError' = ErrorOf(AxisStatusDicts(Response(inflight[p])))
                         /\ ppc' = [ppc EXCEPT ![p] = "pos_send"]
                         /\ lock' = lock
          [] o = "err" -> /\ UNCHANGED <<tick, statusConnected, statusError>>
                          /\ ppc' = [ppc EXCEPT ![p] = "pos_send"]
                          /\ lock' = lock
          [] o = "raise" -> /\ UNCHANGED <<tick, statusConnected, statusError>>
                            /\ ppc' = [ppc EXCEPT ![p] = "handler"]
                            /\ Release(p)
    /\ UNCHANGED <<connected, positions, pub>>
    /\ PollerFrame

\* read_registers(AXIS0_POSITION_REG, 4, slave_id)
PollPositionSend(p) ==
    /\ ppc[p] = "pos_send"
    /\ IF connected
       THEN /\ inflight' = [inflight EXCEPT ![p] =
                                ReadRegisters(AXIS0_POSITION_REG, 4, slave_id)]
            /\ ppc' = [ppc EXCEPT ![p] = "pos_wait"]
       ELSE /\ inflight' = inflight
            /\ ppc' = [ppc EXCEPT ![p] = "publish"]
    /\ UNCHANGED <<connected, statusConnected, lock, storeVars, tick, pub>>
    /\ PollerFrame

\* the position response: four words stored as two positions, or None, or an
\* exception that leaves the tick
PollPositionResponse(p) ==
    /\ ppc[p] = "pos_wait"
    /\ inflight' = [inflight EXCEPT ![p] = NoTx]
    /\ \E o \in Outcomes :
        CASE o = "ok" ->
                LET position_regs == Response(inflight[p]) IN
                /\ tick' = [tick EXCEPT ![p].position_regs = position_regs]
                /\ positions' = IF Len(position_regs) = 4
                                THEN [axis_0 |-> Combine(position_regs, 1),
                                      axis_1 |-> Combine(position_regs, 3)]
                                ELSE positions
                /\ ppc' = [ppc EXCEPT ![p] = "publish"]
                /\ lock' = lock
          [] o = "err" -> /\ UNCHANGED <<tick, positions>>
                          /\ ppc' = [ppc EXCEPT ![p] = "publish"]
                          /\ lock' = lock
          [] o = "raise" -> /\ tick' = [tick EXCEPT ![p] = NoTick]
                            /\ positions' = positions
                            /\ ppc' = [ppc EXCEPT ![p] = "handler"]
                            /\ Release(p)
    /\ UNCHANGED <<connected, statusConnected, statusError, pub>>
    /\ PollerFrame

\* the four publications, then the end of the with block; the values read in
\* the tick are not used again
PollPublish(p) ==
    /\ ppc[p] = "publish"
    /\ pub' = [pub EXCEPT ![p] =
                  IF client # "none"
                  THEN Publications(AxisStatusDicts(tick[p].status_values), positions)
                  ELSE <<>>]
    /\ tick' = [tick EXCEPT ![p] = NoTick]
    /\ Release(p)
    /\ ppc' = [ppc EXCEPT ![p] = "sleep"]
    /\ UNCHANGED <<connected, statusConnected, inflight, storeVars>>
    /\ PollerFrame

\* a handler that lets the exception end the thread
PollHandlerQuits(p) ==
    /\ ppc[p] = "handler"
    /\ statusConnected' = FALSE
    /\ ppc' = [ppc EXCEPT ![p] = "dead"]
    /\ UNCHANGED <<connected, lock, inflight, positions, statusError, tick, pub>>
    /\ PollerFrame

\* except Exception: status["connected"] = False, then is_connected(), which
\* sends its own read when _connected is set
PollHandler(p) ==
    /\ ppc[p] = "handler"
    /\ statusConnected' = FALSE
    /\ IF connected
       THEN /\ inflight' = [inflight EXCEPT ![p] = ReadRegisters(0, 1, 1)]
            /\ ppc' = [ppc EXCEPT ![p] = "health_wait"]
       ELSE /\ inflight' = inflight
            /\ ppc' = [ppc EXCEPT ![p] = "reconnect"]
    /\ UNCHANGED <<connected, lock, positions, statusError, tick, pub>>
    /\ PollerFrame

\* is_connected(): True for a response, else _connected is cleared
PollHealthResponse(p) ==
    /\ ppc[p] = "health_wait"
    /\ inflight' = [inflight EXCEPT ![p] = NoTx]
    /\ \E o \in Outcomes :
        IF o = "ok"
        THEN connected' = connected /\ ppc' = [ppc EXCEPT ![p] = "sleep"]
        ELSE connected' = FALSE /\ ppc' = [ppc EXCEPT ![p] = "reconnect"]
    /\ UNCHANGED <<statusConnected, lock, storeVars, tick, pub>>
    /\ PollerFrame

\* self.status["connected"] = self.modbus.connect()
PollReconnect(p) ==
    /\ ppc[p] = "reconnect"
    /\ connected' = ConnectResult
    /\ statusConnected' = ConnectResult
    /\ ppc' = [ppc EXCEPT ![p] = "sleep"]
    /\ UNCHANGED <<lock, inflight, storeVars, tick, pub>>
    /\ PollerFrame

\* time.sleep(self.poll_interval); the tick's messages have left the client
PollSleep(p) ==
    /\ ppc[p] = "sleep"
    /\ ppc' = [ppc EXCEPT ![p] = "loop"]
    /\ pub' = [pub EXCEPT ![p] = <<>>]
    /\ UNCHANGED <<connected, statusConnected, lock, inflight, storeVars, tick>>
    /\ PollerFrame

(***************************************************************************)
(* Command delivery: _on_command and the Axis methods, on the delivery     *)
(* thread.                                                                 *)
(***************************************************************************)
CmdFrame == UNCHANGED <<bridgeVars, mainVars, linkUp, ppc, dataVars>>

AfterCall(rest) == IF rest = <<>> THEN "ret" ELSE "call"

\* a message is published on the broker: the client drops it when no filter of
\* _on_command matches, else _on_command(msg) runs up to its first handler call
Deliver(topics, bodies) ==
    /\ cpc = "idle"
    /\ (client = "connected" /\ subscribed) \/ leaked
    /\ \E t \in topics, b \in bodies :
        LET r == IF CallbackMatches(t)
                 THEN OnCommandRoute(t, b, slave_id)
                 ELSE Routed("unsubscribed", <<>>)
        IN
        /\ msg' = [topic |-> t, body |-> b]
        /\ routed' = r.why
        /\ todo' = r.calls
        /\ cpc' = AfterCall(r.calls)
    /\ cur' = NoCall
    /\ result' = FALSE
    /\ acks' = <<>>
    /\ writes' = <<>>
    /\ cmdTx' = 0
    /\ UNCHANGED <<lock, inflight>>
    /\ CmdFrame

\* an Axis method up to its with self.parent.lock
CmdCall ==
    /\ cpc = "call"
    /\ LET c == Prepare(Head(todo), slave_id) IN
        /\ cur' = c
        /\ IF c.raise THEN todo' = <<>> /\ cpc' = "ret"
           ELSE IF c.early THEN todo' = Tail(todo) /\ cpc' = AfterCall(Tail(todo))
           ELSE todo' = todo /\ cpc' = "acquire"
    /\ UNCHANGED <<msg, routed, result, acks, writes, cmdTx, lock, inflight>>
    /\ CmdFrame

CmdAcquire ==
    /\ cpc = "acquire"
    /\ Acquire(CB)
    /\ cpc' = "send"
    /\ UNCHANGED <<msg, routed, todo, cur, result, acks, writes, cmdTx, inflight>>
    /\ CmdFrame

\* the write is called: an AttributeError for a method that does not exist,
\* False at once when not connected, else the request goes out
CmdSend ==
    /\ cpc = "send"
    /\ IF cur.tx.fn = "missing"
       THEN /\ Release(CB)
            /\ todo' = <<>>
            /\ cpc' = "ret"
            /\ writes' = Append(writes, "raised")
            /\ UNCHANGED <<result, cmdTx, inflight>>
       ELSE IF ~connected
       THEN /\ result' = FALSE
            /\ cpc' = "ack"
            /\ writes' = Append(writes, "failed")
            /\ UNCHANGED <<todo, cmdTx, inflight, lock>>
       ELSE /\ inflight' = [inflight EXCEPT ![CB] = cur.tx]
            /\ cmdTx' = cmdTx + 1
            /\ cpc' = "wait"
            /\ UNCHANGED <<todo, result, writes, lock>>
    /\ UNCHANGED <<msg, routed, cur, acks>>
    /\ CmdFrame

\* a method that takes and releases the lock by hand: an exception leaves it
\* with the lock held
CmdResponseKeepsLock ==
    /\ cpc = "wait"
    /\ inflight' = [inflight EXCEPT ![CB] = NoTx]
    /\ \E o \in Outcomes :
        /\ writes' = Append(writes, CASE o = "ok" -> "ok"
                                       [] o = "err" -> "failed"
                                       [] o = "raise" -> "raised")
        /\ IF o = "raise"
           THEN /\ todo' = <<>>
                /\ cpc' = "ret"
                /\ UNCHANGED <<result, lock>>
           ELSE /\ result' = IF cur.tx.fn = "write_registers"
                             THEN WriteRegistersResult(o = "err")
                             ELSE WriteRegisterResult(o = "err")
                /\ cpc' = "ack"
                /\ UNCHANGED <<todo, lock>>
    /\ UNCHANGED <<msg, routed, cur, acks, cmdTx>>
    /\ CmdFrame

\* the write's response: its return value, or an exception that leaves the
\* method and _on_command
CmdResponse ==
    /\ cpc = "wait"
    /\ inflight' = [inflight EXCEPT ![CB] = NoTx]
    /\ \E o \in Outcomes :
        /\ writes' = Append(writes, CASE o = "ok" -> "ok"
                                       [] o = "err" -> "failed"
                                       [] o = "raise" -> "raised")
        /\ IF o = "raise"
           THEN /\ Release(CB)
                /\ todo' = <<>>
                /\ cpc' = "ret"
                /\ result' = result
           ELSE /\ result' = IF cur.tx.fn = "write_registers"
                             THEN WriteRegistersResult(o = "err")
                             ELSE WriteRegisterResult(o = "err")
                /\ cpc' = "ack"
                /\ UNCHANGED <<todo, lock>>
    /\ UNCHANGED <<msg, routed, cur, acks, cmdTx>>
    /\ CmdFrame

\* a method that marks the device disconnected when its write did not succeed
CmdAckMarksStatus ==
    /\ cpc = "ack"
    /\ acks' = IF client # "none"
               THEN Append(acks, Ack(Head(todo).axis, cur.command, result))
               ELSE acks
    /\ statusConnected' = (statusConnected /\ writes[Len(writes)] = "ok")
    /\ Release(CB)
    /\ todo' = Tail(todo)
    /\ cpc' = AfterCall(Tail(todo))
    /\ UNCHANGED <<msg, routed, cur, result, writes, cmdTx, inflight>>
    /\ UNCHANGED <<slave_id, running, poll_thread, connected, client, subscribed, leaked,
                   mainVars, linkUp, ppc, dataVars>>

\* the acknowledgment is published, then the with block ends
CmdAck ==
    /\ cpc = "ack"
    /\ acks' = IF client # "none"
               THEN Append(acks, Ack(Head(todo).axis, cur.command, result))
               ELSE acks
    /\ Release(CB)
    /\ todo' = Tail(todo)
    /\ cpc' = AfterCall(Tail(todo))
    /\ UNCHANGED <<msg, routed, cur, result, writes, cmdTx, inflight>>
    /\ CmdFrame

\* _on_command returns; the Command is discarded
CmdReturn ==
    /\ cpc = "ret"
    /\ cpc' = "idle"
    /\ msg' = NoMsg
    /\ routed' = ""
    /\ cur' = NoCall
    /\ result' = FALSE
    /\ acks' = <<>>
    /\ writes' = <<>>
    /\ cmdTx' = 0
    /\ UNCHANGED <<todo, lock, inflight>>
    /\ CmdFrame

(***************************************************************************)
(* Specifications.                                                         *)
(***************************************************************************)
Starting ==
    \/ StartMqtt
    \/ StartConnect
    \/ StartSubscribe
    \/ StartLaunch

Stopping ==
    \/ StopSignal
    \/ StopJoin
    \/ StopDisconnect
    \/ StopMqtt

Poll(p) ==
    \/ PollLoop(p)
    \/ PollAcquire(p)
    \/ PollStatusSend(p)
    \/ PollStatusResponse(p)
    \/ PollPositionSend(p)
    \/ PollPositionResponse(p)
    \/ PollPublish(p)
    \/ PollHandler(p)
    \/ PollHealthResponse(p)
    \/ PollReconnect(p)
    \/ PollSleep(p)

Handle ==
    \/ CmdCall
    \/ CmdAcquire
    \/ CmdSend
    \/ CmdResponse
    \/ CmdAck
    \/ CmdReturn

\* the bridge with its threads, for a few messages to the default device
Next ==
    \/ Starting
    \/ Stopping
    \/ \E p \in Pollers : Poll(p)
    \/ Deliver(ConcTopics, ConcBodies)
    \/ Handle
    \/ LinkFlip

Spec == Init /\ [][Next]_vars

\* the command path for every message and device id of the inputs: the bridge
\* is started and not stopped, and the poll thread is launched but not scheduled
NextRoute ==
    \/ Starting
    \/ Deliver(RouteTopics, RouteBodies)
    \/ Handle
    \/ LinkFlip

SpecRoute == InitWith(SlaveIds) /\ regs = QuietDevice /\ [][NextRoute]_vars

\* the command path for the parameter values of the inputs
NextArgs ==
    \/ Starting
    \/ Deliver(ArgTopics, ArgBodies)
    \/ Handle
    \/ LinkFlip

SpecArgs == InitWith(SlaveIds) /\ regs = QuietDevice /\ [][NextArgs]_vars

\* the command path for the relative move and the servo actions
NextServo ==
    \/ Starting
    \/ Deliver(ServoTopics, ServoBodies)
    \/ Handle
    \/ LinkFlip

SpecServo == InitWith(SlaveIds) /\ regs = QuietDevice /\ [][NextServo]_vars

\* the poller alone on every device of the inputs: the bridge is started and
\* not stopped, and no command arrives
NextPoll ==
    \/ Starting
    \/ \E p \in Pollers : Poll(p)
    \/ LinkFlip

SpecPoll == InitWith({DefaultSlaveId}) /\ regs \in PollDevices /\ [][NextPoll]_vars

\* the life of the bridge and of its pollers, with no command: start() and
\* stop() in any order, each poller at its own pace, and a link that comes and
\* goes
NextStop ==
    \/ Starting
    \/ Stopping
    \/ \E p \in Pollers : Poll(p)
    \/ LinkFlip

SpecStop == Init /\ [][NextStop]_vars

\* the threads of a started bridge with scheduling that lets each one run: a
\* thread that can take a step does so in the end (a response or its timeout
\* arrives, a sleep ends), and a thread that waits for the lock gets it when the
\* lock is free again and again
NextLive ==
    \/ Starting
    \/ \E p \in Pollers : Poll(p)
    \/ Deliver(ConcTopics, ConcBodies)
    \/ Handle
    \/ LinkFlip

Scheduling ==
    /\ \A p \in Pollers : WF_vars(Poll(p)) /\ SF_vars(PollAcquire(p))
    /\ WF_vars(Handle)
    /\ SF_vars(CmdAcquire)

SpecLive == Init /\ [][NextLive]_vars /\ Scheduling

\* the command path for absolute moves over the range of positions
NextPositions ==
    \/ Starting
    \/ Deliver(PositionTopics, PositionBodies)
    \/ Handle
    \/ LinkFlip

SpecPositions == Init /\ [][NextPositions]_vars

\* the bridge with its threads for each device id of the inputs
SpecDevices == InitWith(SlaveIds) /\ regs = QuietDevice /\ [][Next]_vars

\* start() and stop() in any order with room for one poll thread more: a
\* start() launches a thread whether or not an earlier one is alive, so the
\* threads here are those of the other specifications and one more
RestartPollers == Pollers \cup {CB + 1}

NextRestart ==
    \/ Starting
    \/ Stopping
    \/ \E p \in RestartPollers : Poll(p)
    \/ LinkFlip

SpecRestart == InitThreads({DefaultSlaveId}, RestartPollers) /\ regs = QuietDevice
               /\ [][NextRestart]_vars

\* a bridge that is not started again once stop() has been called: start() in
\* any number, then stop() in any number, with pollers that are scheduled
\* fairly
StopRequested ==
    \/ mpc \in {"stop_join", "stop_disconnect", "stop_mqtt"}
    \/ lastCall \in {"stop", "stop_again", "stop_fresh"}

NextShutdown ==
    \/ (Starting /\ ~StopRequested)
    \/ Stopping
    \/ \E p \in Pollers : Poll(p)
    \/ LinkFlip

PollerScheduling == \A p \in Pollers : WF_vars(Poll(p)) /\ SF_vars(PollAcquire(p))

SpecShutdown == Init /\ [][NextShutdown]_vars /\ PollerScheduling

(***************************************************************************)
(* Properties.                                                             *)
(***************************************************************************)
Outstanding == {t \in Threads : inflight[t] # NoTx}
StopReturned == mpc = "idle" /\ lastCall \in {"stop", "stop_again", "stop_fresh"}
Handling == cpc # "idle"
TopicParts == Split(msg.topic)

\* C1: at most one register transaction is outstanding at any instant, the
\* poller's reads, the command writes and the health-check read included.
C1_OneTransactionOutstanding == Cardinality(Outstanding) <= 1

\* a poller is between the start of its status read and the end of its
\* position read
InTickReads(p) == ppc[p] \in {"status_wait", "pos_send", "pos_wait"}
\* a poller holds the lock for its tick
InTick(p) == ppc[p] \in {"status_send", "status_wait", "pos_send", "pos_wait", "publish"}
MoveAbsoluteCall == cur.command = "move_absolute"
MoveAbsoluteInFlight == MoveAbsoluteCall /\ inflight[CB] # NoTx

RecognizedAxisMessage ==
    /\ Handling
    /\ routed = "axis"
    /\ ParseInt(TopicParts[4]).val \in {0, 1}

\* C3: when _on_command returns from a recognized axis action for an axis of
\* the configured device, exactly one acknowledgment has been published,
\* whether the write succeeded or failed.
C3_ExactlyOneAck == (RecognizedAxisMessage /\ cpc = "ret") => Len(acks) = 1

\* C4: the success field of every acknowledgment is true when the command's
\* write succeeded and false when it failed (error response or not connected),
\* for multi-word and single-word actions.
C4_AckReportsWrite ==
    \A i \in 1..Len(acks) : acks[i].success = (writes[i] = "ok")

\* C5: once stop() has returned, every poll loop has terminated.
C5_PollerStoppedAfterStop ==
    StopReturned => \A p \in Pollers : ppc[p] \in {"none", "dead"}

\* C6: after stop() has returned and until start() is called again,
\* RegisterLink is disconnected.
C6_LinkStaysDisconnected == StopReturned => ~connected

\* C7: a stop() on a bridge that was never started, and a stop() that follows
\* a stop(), leave the running flag false, RegisterLink disconnected and
\* PubSubClient disconnected.
C7_StopIdempotent ==
    (mpc = "idle" /\ lastCall \in {"stop_again", "stop_fresh"}) =>
        (~running /\ ~connected /\ client # "connected")

\* the state a start() whose connect failed leaves when no start has succeeded
FailedStartState ==
    /\ ~running
    /\ ~subscribed
    /\ ~leaked
    /\ ~connected
    /\ poll_thread = 0
    /\ \A p \in Pollers : ppc[p] = "none"
    /\ ~Handling
    /\ Outstanding = {}

\* the step of start() in which the connect fails
ConnectFailsInStart == mpc = "start_connect" /\ mpc' # mpc /\ ~ConnectResult

\* C8: when the RegisterLink connect fails in start(), start() returns failure
\* at that step without subscribing, setting the running flag or launching a
\* poller; and while no start() has succeeded there is no subscription, no
\* poller (hence no tick and no reconnect attempt) and the flag is false.
C8_FailedStartAborts ==
    /\ []((mpc = "idle" /\ lastCall = "start_failed" /\ ~startedOk) => FailedStartState)
    /\ [][ConnectFailsInStart =>
             /\ mpc' = "idle"
             /\ lastCall' = "start_failed"
             /\ UNCHANGED <<running, subscribed, poll_thread, ppc, connected>>]_vars

\* start() has returned failure from a failed connect
C8_Witness == mpc = "idle" /\ lastCall = "start_failed" /\ ~linkUp /\ client = "connected"

\* the device-id segment of the message differs from the configured device id
OtherDevice == Len(TopicParts) >= 2 /\ TopicParts[2] # IntText(slave_id)

\* C9: a message whose device-id segment differs from the configured device id
\* invokes no handler: no register transaction and no acknowledgment.
C9_OtherDeviceNeverDispatched ==
    (Handling /\ OtherDevice) =>
        (todo = <<>> /\ cur = NoCall /\ cmdTx = 0 /\ acks = <<>>)

\* the message fails to parse: fewer than 3 segments, an axis segment that is
\* not an integer, or a body that is not JSON
ShortTopic(t) == Len(Split(t)) < 3
BadAxisSegment(t) ==
    /\ Len(Split(t)) >= 5
    /\ Split(t)[3] = sAxis
    /\ ~ParseInt(Split(t)[4]).ok
BadBody(b) == b.kind \in {"empty", "garbage"}
ParseFails(m) == ShortTopic(m.topic) \/ BadAxisSegment(m.topic) \/ BadBody(m.body)

\* C10: a message that fails to parse is dropped: no handler is called, no
\* register transaction is sent, no acknowledgment is published, and the steps
\* of _on_command for it change nothing of the bridge, the lock or the link.
C10_ParseFailureDropped ==
    /\ []((Handling /\ ParseFails(msg)) =>
            /\ cpc = "ret"
            /\ todo = <<>>
            /\ cur = NoCall
            /\ cmdTx = 0
            /\ writes = <<>>
            /\ acks = <<>>
            /\ inflight[CB] = NoTx
            /\ lock # CB)
    /\ [][(cpc' # cpc /\ ParseFails(IF cpc = "idle" THEN msg' ELSE msg)) =>
             UNCHANGED <<bridgeVars, lock, inflight, ppc>>]_vars

\* a message for the configured device with a body that is not JSON, and one
\* with an axis segment that is not an integer, have been dropped
C10_Witness ==
    /\ cpc = "ret"
    /\ Len(TopicParts) >= 5
    /\ TopicParts[2] = IntText(slave_id)
    /\ \/ BadBody(msg.body) /\ routed = "json"
       \/ BadAxisSegment(msg.topic) /\ routed = "axis_id"

\* the message is addressed to the configured device by its exact id
ForConfiguredDevice == Len(TopicParts) >= 2 /\ TopicParts[2] = IntText(slave_id)

SingleActions == {sHome, sStop, sEnable, sDisable, sReset, sEnableServo,
                  sDisableServo, sServoSpeed}
DeviceActions == {sEnable, sDisable, sReset}

\* the topic has the device-level or the axis-level form, and its action
\* segment (with the subaction of a move) is not an action of the grammar
UnrecognizedAction(parts) ==
    \/ Len(parts) = 3 /\ parts[3] \notin DeviceActions
    \/ /\ Len(parts) >= 5
       /\ parts[3] = sAxis
       /\ parts[5] \notin SingleActions
       /\ ~(parts[5] = sMove /\ Len(parts) >= 6 /\ parts[6] \in {sAbsolute, sRelative})

\* C11: a message for the configured device whose action segment is not a
\* recognized axis-level or device-level action calls no handler, sends no
\* register transaction and publishes no acknowledgment.
C11_UnknownActionDropped ==
    (Handling /\ ForConfiguredDevice /\ UnrecognizedAction(TopicParts)) =>
        /\ cpc = "ret"
        /\ todo = <<>>
        /\ cur = NoCall
        /\ cmdTx = 0
        /\ writes = <<>>
        /\ acks = <<>>
        /\ inflight[CB] = NoTx

\* a message with a JSON object for the configured device and the single
\* segment move_absolute for its action has been dropped
C11_Witness ==
    /\ cpc = "ret"
    /\ ForConfiguredDevice
    /\ msg.body.kind = "object"
    /\ Len(TopicParts) = 5
    /\ TopicParts[5] = sMovePrefix \o sAbsolute
    /\ ParseInt(TopicParts[4]).val \in {0, 1}
    /\ ParseInt(TopicParts[4]).ok

\* the topic has the axis-level form with an integer axis segment
AxisLevel ==
    /\ Len(TopicParts) >= 5
    /\ TopicParts[3] = sAxis
    /\ ParseInt(TopicParts[4]).ok
TopicAxis == ParseInt(TopicParts[4]).val

\* the Axis method that belongs to the action of an axis-level topic
HandlerOf(parts) ==
    IF parts[5] = sMove /\ Len(parts) >= 6 /\ parts[6] = sAbsolute THEN "move_absolute"
    ELSE IF parts[5] = sMove /\ Len(parts) >= 6 /\ parts[6] = sRelative THEN "move_relative"
    ELSE IF parts[5] = sHome THEN "home"
    ELSE IF parts[5] = sStop THEN "stop"
    ELSE IF parts[5] = sEnable THEN "enable"
    ELSE IF parts[5] = sDisable THEN "disable"
    ELSE IF parts[5] = sReset THEN "reset"
    ELSE IF parts[5] = sEnableServo THEN "enable_servo_mode"
    ELSE IF parts[5] = sDisableServo THEN "disable_servo_mode"
    ELSE IF parts[5] = sServoSpeed THEN "set_servo_speed"
    ELSE "none"

\* C12: for an axis-level topic of the grammar addressed to the configured
\* device with a JSON object, every handler called is the one of the topic's
\* action and acts on the axis of the topic's axis segment: the call, the axis
\* word of a multi-word write and the acknowledgment all carry that axis id.
C12_HandlerMatchesTopic ==
    (Handling /\ ForConfiguredDevice /\ AxisLevel /\ msg.body.kind = "object") =>
        /\ \A i \in 1..Len(todo) :
            todo[i].h = HandlerOf(TopicParts) /\ todo[i].axis = TopicAxis
        /\ cur # NoCall =>
            /\ cur.command = HandlerOf(TopicParts)
            /\ cur.tx.fn = "write_registers" => cur.tx.words[2] = IntV(TopicAxis)
        /\ \A i \in 1..Len(acks) :
            acks[i].command = HandlerOf(TopicParts) /\ acks[i].axis = TopicAxis

\* C13: an axis-level message whose axis segment is an integer outside {0, 1}
\* calls no handler, sends no register transaction and publishes no
\* acknowledgment, whatever its action.
C13_AxisOutOfRangeRejected ==
    (Handling /\ AxisLevel /\ TopicAxis \notin {0, 1}) =>
        /\ todo = <<>>
        /\ cur = NoCall
        /\ cmdTx = 0
        /\ acks = <<>>

\* the parameter of the message's payload, or the default when it is absent
Param(name, default) ==
    IF name \in DOMAIN msg.body.fields THEN msg.body.fields[name] ELSE IntV(default)

\* an absolute move for axis 0 or 1 of the configured device whose payload is
\* an object with an integer position
MoveAbsoluteMessage ==
    /\ Handling
    /\ ForConfiguredDevice
    /\ AxisLevel
    /\ TopicAxis \in {0, 1}
    /\ HandlerOf(TopicParts) = "move_absolute"
    /\ msg.body.kind = "object"
    /\ "position" \in DOMAIN msg.body.fields
    /\ msg.body.fields["position"].t = "int"

ExpectedMoveWords ==
    LET p == msg.body.fields["position"].v IN
    <<IntV(258), IntV(TopicAxis), IntV(p % 65536), IntV((p \div 65536) % 65536),
      IntV(0), IntV(0), Param("speed", 1000), Param("acceleration", 1000),
      Param("deceleration", 1000)>>

ServoSpeedMessage ==
    /\ Handling
    /\ ForConfiguredDevice
    /\ AxisLevel
    /\ TopicAxis \in {0, 1}
    /\ HandlerOf(TopicParts) = "set_servo_speed"
    /\ msg.body.kind = "object"
    /\ "speed" \in DOMAIN msg.body.fields

GivenSpeed == msg.body.fields["speed"]

\* the floats and numeric strings of the inputs, with the integer each stands
\* for when truncated toward zero
ConvertedSpeeds ==
    {<<FloatV(<<"1", "2", ".", "7">>), 12>>, <<FloatV(<<"-", "3", ".", "9">>), 0 - 3>>,
     <<StrV(<<"1", "2", ".", "7">>), 12>>, <<StrV(<<"-", "3", ".", "9">>), 0 - 3>>,
     <<StrV(<<" ", "7", " ">>), 7>>}
\* the speeds of the inputs that are strings and no numbers
NonNumericSpeeds == {StrV(sAbc), StrV(<<"1", ".", "2", ".", "3">>), StrV(<<>>)}

ServoSpeedWrite(speed) ==
    [fn |-> "write_registers", addr |-> 0, count |-> 3,
     words |-> <<IntV(515), IntV(TopicAxis), IntV(speed)>>, slave |-> slave_id]

\* C18: servo_speed writes its speed as an integer: an integer as it is, a
\* float or a numeric string truncated toward zero ("12.7" gives 12); for a
\* string that is no number it sends no register write and publishes no
\* acknowledgment.
C18_ServoSpeedConversion ==
    ServoSpeedMessage =>
        /\ (GivenSpeed.t = "int" /\ inflight[CB] # NoTx) =>
            inflight[CB] = ServoSpeedWrite(GivenSpeed.v)
        /\ GivenSpeed.t # "int" =>
            GivenSpeed \in {c[1] : c \in ConvertedSpeeds} \cup NonNumericSpeeds
        /\ \A c \in ConvertedSpeeds :
            (GivenSpeed = c[1] /\ inflight[CB] # NoTx) =>
                inflight[CB] = ServoSpeedWrite(c[2])
        /\ (GivenSpeed \notin NonNumericSpeeds /\ cpc \in {"wait", "ack", "ret"}) =>
            (cmdTx = 1 \/ (cmdTx = 0 /\ writes = <<"failed">>))
        /\ GivenSpeed \in NonNumericSpeeds =>
            /\ cpc \in {"call", "ret"}
            /\ cmdTx = 0
            /\ writes = <<>>
            /\ acks = <<>>
            /\ inflight[CB] = NoTx
            /\ lock # CB

\* the write for {"speed":"12.7"} is in flight with the word 12
C18_Witness ==
    /\ ServoSpeedMessage
    /\ GivenSpeed = StrV(<<"1", "2", ".", "7">>)
    /\ inflight[CB] # NoTx
    /\ inflight[CB].words[3] = IntV(12)

\* a stop, enable, disable or reset for axis 0 or 1 of the configured device, or
\* a device-level enable, disable or reset for it
NoPayloadAction ==
    /\ Handling
    /\ ForConfiguredDevice
    /\ \/ Len(TopicParts) = 3 /\ TopicParts[3] \in DeviceActions
       \/ /\ AxisLevel
          /\ Len(TopicParts) = 5
          /\ TopicAxis \in {0, 1}
          /\ TopicParts[5] \in {sStop, sEnable, sDisable, sReset}

\* C19: a stop, enable, disable or reset message for the configured device with
\* an empty body is executed as with the payload {}: its handler is called, and
\* when _on_command returns the write has been called.
C19_NoPayloadRequired ==
    (NoPayloadAction /\ msg.body = EmptyBody) =>
        /\ routed \in {"axis", "device"}
        /\ cpc = "ret" => writes # <<>>

\* a device-level enable, disable or reset for the configured device
DeviceLevelMessage ==
    /\ Handling
    /\ ForConfiguredDevice
    /\ Len(TopicParts) = 3
    /\ TopicParts[3] \in DeviceActions

DeviceCommand ==
    IF TopicParts[3] = sEnable THEN "enable"
    ELSE IF TopicParts[3] = sDisable THEN "disable"
    ELSE "reset"

\* C20: a device-level enable, disable or reset for the configured device is
\* applied to every axis: when _on_command returns, one write has been called
\* and one acknowledgment published for axis 0 and then one for axis 1, and the
\* lock is not held between the two.
C20_DeviceLevelEveryAxis ==
    DeviceLevelMessage =>
        /\ cpc = "ret" =>
            /\ Len(writes) = 2
            /\ acks = <<Ack(0, DeviceCommand, acks[1].success),
                        Ack(1, DeviceCommand, acks[2].success)>>
        /\ cpc = "call" => lock # CB

\* the step in which poller p publishes the messages of its tick
PublishStep(p) == ppc[p] = "publish" /\ ppc'[p] = "sleep"

\* bit k of a word
Bit(w, k) == (w \div (2 ^ k)) % 2 = 1

\* the flags of axis i in a status word: bits 8i+0 .. 8i+5 and bit 8i+6
FlagsOfBits(w, i) ==
    [limit_neg |-> Bit(w, 8 * i), limit_pos |-> Bit(w, 8 * i + 1),
     is_moving |-> Bit(w, 8 * i + 2), is_done |-> Bit(w, 8 * i + 3),
     is_homed |-> Bit(w, 8 * i + 4), has_error |-> Bit(w, 8 * i + 5),
     is_servo_mode |-> Bit(w, 8 * i + 6)]

FlagsOf(dict) ==
    [limit_neg |-> dict.limit_neg, limit_pos |-> dict.limit_pos,
     is_moving |-> dict.is_moving, is_done |-> dict.is_done,
     is_homed |-> dict.is_homed, has_error |-> dict.has_error,
     is_servo_mode |-> dict.is_servo_mode]

\* C15: when a tick has read a status word w, the status it publishes for axis
\* i (0 or 1) has limit_neg, limit_pos, is_moving, is_done, is_homed, has_error
\* equal to bits 8i+0 .. 8i+5 of w and is_servo_mode equal to bit 8i+6; no bit
\* of the other axis's byte has a part in it.
C15_StatusBitsDecoded ==
    [][\A p \in Pollers :
          (PublishStep(p) /\ tick[p].status_values # <<>>) =>
              /\ Len(pub'[p]) = 4
              /\ \A i \in {0, 1} :
                  /\ pub'[p][i + 1].kind = "status"
                  /\ pub'[p][i + 1].axis = i
                  /\ FlagsOf(pub'[p][i + 1].status)
                         = FlagsOfBits(tick[p].status_values[1], i)]_vars

\* the word 0x0100 has been read and published: limit_neg of axis 1 alone
C15_Witness ==
    \E p \in Pollers :
        /\ ppc[p] = "sleep"
        /\ pub[p] # <<>>
        /\ regs[1] = 256
        /\ FlagsOf(pub[p][2].status) = FlagsOfBits(1, 0)
        /\ FlagsOf(pub[p][1].status) = FlagsOfBits(0, 0)

\* the integer low + 65536 * high of two register words, in the notation of
\* the store
WordsValue(low, high) == [hi |-> high, lo |-> low]

\* C16: the four position words of a tick are stored and published as
\* low + 65536 * high, low word first: words 0-1 for axis 0 and words 2-3 for
\* axis 1 ([5, 0] gives 5 and [0, 1] gives 65536).
C16_PositionLowWordFirst ==
    [][\A p \in Pollers :
          /\ (ppc[p] = "pos_wait" /\ tick'[p].position_regs # <<>>) =>
                LET r == tick'[p].position_regs IN
                /\ Len(r) = 4
                /\ positions'.axis_0 = WordsValue(r[1], r[2])
                /\ positions'.axis_1 = WordsValue(r[3], r[4])
          /\ (PublishStep(p) /\ tick[p].position_regs # <<>>) =>
                LET r == tick[p].position_regs IN
                /\ Len(pub'[p]) = 4
                /\ pub'[p][3].kind = "position" /\ pub'[p][3].axis = 0
                /\ pub'[p][3].position = WordsValue(r[1], r[2])
                /\ pub'[p][4].kind = "position" /\ pub'[p][4].axis = 1
                /\ pub'[p][4].position = WordsValue(r[3], r[4])]_vars

\* the registers [0, 1] of axis 0 and [7, 0] of axis 1 have been published as
\* 65536 and 7
C16_Witness ==
    \E p \in Pollers :
        /\ pub[p] # <<>>
        /\ regs[AXIS0_POSITION_REG] = 0 /\ regs[AXIS0_POSITION_REG + 1] = 1
        /\ regs[AXIS0_POSITION_REG + 2] = 7 /\ regs[AXIS0_POSITION_REG + 3] = 0
        /\ pub[p][3].position = PyInt(65536)
        /\ pub[p][4].position = PyInt(7)
        /\ positions = [axis_0 |-> PyInt(65536), axis_1 |-> PyInt(7)]

\* a <= b for integers of the store that are not negative
LessEq(a, b) == a.hi < b.hi \/ (a.hi = b.hi /\ a.lo <= b.lo)

\* the stored integer is a 32-bit signed integer: it is never negative, so it
\* is one when it is at most 2^31 - 1
InInt32(big) == LessEq(big, PyInt(2147483647))

\* C17: the position stored and published for each axis is a 32-bit signed
\* integer, in [-2^31, 2^31 - 1], for every pair of register words.
C17_PositionSigned32 ==
    /\ InInt32(positions.axis_0)
    /\ InInt32(positions.axis_1)
    /\ \A p \in Pollers :
        pub[p] # <<>> => InInt32(pub[p][3].position) /\ InInt32(pub[p][4].position)

\* poller p ends a tick: it goes to the sleep that follows every iteration
TickEnds(p) == ppc[p] # "sleep" /\ ppc'[p] = "sleep"

\* C21: while RegisterLink is disconnected every tick of a running poller makes
\* a reconnect attempt, so that a link that has become connectable is
\* reconnected: a tick that ends while the link is disconnected ends with the
\* reconnect attempt, also after an attempt that failed.
C21_EveryTickReconnects ==
    [][\A p \in Pollers :
          (TickEnds(p) /\ ~connected /\ running) => ppc[p] = "reconnect"]_vars

\* the tick that poller p is in has come to its publications with no status
\* registers: the status read got an error response, or nothing because the
\* link is not connected
StatusReadFailed(p) == ppc[p] = "publish" /\ tick[p].status_values = <<>>

\* C22: a tick whose status read failed ends with a reconnect attempt, and
\* DeviceStatus.connected is false after it unless that attempt succeeded.
\* Stated for the status reads that return nothing (error response, link not
\* connected); a status read that raised is not told apart, once the tick is
\* left, from a position read that raised.
C22_ReadFailureReconnects ==
    [][\A p \in Pollers :
          (TickEnds(p) /\ StatusReadFailed(p)) =>
              /\ ppc[p] = "reconnect"
              /\ statusConnected' => connected']_vars

\* poller p leaves its loop
PollerStops(p) == ppc[p] # "dead" /\ ppc'[p] = "dead"

\* C23: the poll loop ends only through a stop request: a poller stops only at
\* the test of its loop with the running flag cleared, never in a tick, whatever
\* its reads, its reconnect attempt or its publications did; and only stop()
\* clears the flag.
C23_LoopEndsOnlyOnStop ==
    /\ [][\A p \in Pollers : PollerStops(p) => (ppc[p] = "loop" /\ ~running)]_vars
    /\ [][(running /\ ~running') => (mpc = "idle" /\ mpc' \in {"stop_join", "stop_disconnect"})]_vars

\* a poller whose tick lost the link and whose reconnect attempt failed has gone
\* on, and has stopped once stop() cleared the flag
C23_Witness ==
    \E p \in Pollers :
        /\ ppc[p] = "dead"
        /\ mpc = "stop_join"
        /\ lastCall = "start_ok"
        /\ ~running
        /\ ~connected
        /\ ~statusConnected

\* the delivery thread is outside the with block of an Axis method
OutsideLockedSection == cpc \in {"idle", "call", "acquire", "ret"}

\* C24: when a command handler ends, with a write that succeeded or failed or
\* by an exception raised under the lock, the lock is released: the delivery
\* thread never holds it outside the with block of an Axis method, so a poller
\* that waits for the lock gets it, and so does a pending command.
C24_FailingCommandReleasesLock ==
    /\ [](OutsideLockedSection => lock # CB)
    /\ \A p \in Pollers : (ppc[p] = "acquire") ~> (lock = p)
    /\ (cpc = "acquire") ~> (lock = CB)

\* a command's write has raised under the lock while a poller waits for the
\* lock, and the lock is free
C24_Witness ==
    /\ cpc = "ret"
    /\ writes # <<>>
    /\ writes[Len(writes)] = "raised"
    /\ lock = 0
    /\ \E p \in Pollers : ppc[p] = "acquire"

\* the state store: the stored positions and DeviceStatus (connected, error)
Store == <<positions, statusConnected, statusError>>

\* C25: every change of the stored positions or of DeviceStatus is a step of a
\* poller that holds the lock; no other thread changes them, and a poller
\* changes them only under the lock.
C25_StoreWrittenByPollerUnderLock ==
    [][Store' # Store => \E p \in Pollers : ppc'[p] # ppc[p] /\ lock = p]_vars

\* the delivery thread takes a step of _on_command or of an Axis method
CommandStep == cpc' # cpc \/ cmdVars' # cmdVars

\* C26: command dispatch leaves the state store unchanged: no step of
\* _on_command or of an Axis method, for any message and whether the write
\* succeeds, fails or raises, changes the stored positions or DeviceStatus.
C26_DispatchLeavesStore == [][CommandStep => Store' = Store]_vars

\* a handler whose write failed has acknowledged and returned, and DeviceStatus
\* still says connected
C26_Witness ==
    /\ cpc = "ret"
    /\ routed = "axis"
    /\ writes = <<"failed">>
    /\ Len(acks) = 1
    /\ statusConnected
    /\ positions = [axis_0 |-> PyInt(0), axis_1 |-> PyInt(0)]

\* the store records a successful status read: the error it keeps is written
\* by a status read only, and the device's registers do not change, so that
\* read decoded the status word the device has now
StatusWasRead == statusError = "Error detected"

\* the position read of the tick that poller p is in gave no registers
PositionReadFailed(p) == tick[p].position_regs = <<>>

\* C27: what a tick publishes for an axis is the state of the last successful
\* read: after a status read that failed, the flags published are those decoded
\* by the last status read that succeeded, not defaults; after a position read
\* that failed, the position published is the stored one.
C27_PublishesLastGoodState ==
    [][\A p \in Pollers :
          /\ (PublishStep(p) /\ StatusReadFailed(p) /\ StatusWasRead) =>
                \A i \in {0, 1} :
                    FlagsOf(pub'[p][i + 1].status) = FlagsOfBits(regs[1], i)
          /\ (PublishStep(p) /\ PositionReadFailed(p)) =>
                /\ pub'[p][3].position = positions.axis_0
                /\ pub'[p][4].position = positions.axis_1
                /\ positions' = positions]_vars

\* the control address and the literal value of each single-word action
SingleWordTable ==
    [stop |-> <<0, 0>>, home |-> <<0, 1>>, enable |-> <<4, 1>>,
     disable |-> <<4, 0>>, reset |-> <<5, 1>>]
SingleWordCommands == {"stop", "home", "enable", "disable", "reset"}

\* a single-word action is being executed for the message
SingleWordCall == Handling /\ cur.command \in SingleWordCommands

\* C28: each single-word action sends one single-register write to the
\* configured device, at its control address with its literal value: stop 0 at
\* address 0, home 1 at 0, enable 1 at 4, disable 0 at 4, reset 1 at 5, whatever
\* the configured device id; an axis-level message sends no second transaction.
C28_SingleWordWrites ==
    SingleWordCall =>
        /\ inflight[CB] # NoTx =>
            inflight[CB] = [fn |-> "write_register",
                            addr |-> SingleWordTable[cur.command][1],
                            count |-> 1,
                            words |-> <<IntV(SingleWordTable[cur.command][2])>>,
                            slave |-> slave_id]
        /\ routed = "axis" => cmdTx <= 1

\* a relative move for axis 0 or 1 of the configured device whose payload is
\* an object with an integer distance
MoveRelativeMessage ==
    /\ Handling
    /\ ForConfiguredDevice
    /\ AxisLevel
    /\ TopicAxis \in {0, 1}
    /\ HandlerOf(TopicParts) = "move_relative"
    /\ msg.body.kind = "object"
    /\ "distance" \in DOMAIN msg.body.fields
    /\ msg.body.fields["distance"].t = "int"

WordsOf(tx) == {tx.words[k] : k \in 1..Len(tx.words)}

\* C29: a relative move for axis a with distance d sends one register write
\* that starts at address 0 of the configured device and carries d and the
\* speed, acceleration and deceleration (1000 each when absent), and then
\* publishes one acknowledgment with command move_relative for axis a.
C29_MoveRelativeWritesAndAcks ==
    MoveRelativeMessage =>
        /\ cmdTx <= 1
        /\ inflight[CB] # NoTx =>
            /\ inflight[CB].fn = "write_registers"
            /\ inflight[CB].addr = 0
            /\ inflight[CB].slave = slave_id
            /\ {msg.body.fields["distance"], Param("speed", 1000),
                Param("acceleration", 1000), Param("deceleration", 1000)}
                   \subseteq WordsOf(inflight[CB])
        /\ cpc = "ret" =>
            /\ cmdTx = 1 \/ writes = <<"failed">>
            /\ Len(acks) = 1
            /\ acks[1].command = "move_relative"
            /\ acks[1].axis = TopicAxis

\* a servo action for an axis of the configured device with an object payload
ServoCommands == {"enable_servo_mode", "disable_servo_mode", "set_servo_speed"}
ServoMessage ==
    /\ Handling
    /\ ForConfiguredDevice
    /\ AxisLevel
    /\ HandlerOf(TopicParts) \in ServoCommands
    /\ msg.body.kind = "object"

\* the words the servo action of the message is to write; the speed word of
\* servo_speed is the one written when the given speed is no integer
ExpectedServoWords(written) ==
    CASE HandlerOf(TopicParts) = "enable_servo_mode" ->
            <<IntV(513), IntV(TopicAxis), Param("max_speed", 5000),
              Param("acceleration", 1000)>>
      [] HandlerOf(TopicParts) = "disable_servo_mode" ->
            <<IntV(514), IntV(TopicAxis)>>
      [] HandlerOf(TopicParts) = "set_servo_speed" ->
            <<IntV(515), IntV(TopicAxis),
              IF Param("speed", 0).t = "int" THEN Param("speed", 0) ELSE written[3]>>

\* C30: the servo actions write at address 0 of the configured device:
\* enable_servo the words 0x0201, axis, max_speed, acceleration (5000 and 1000
\* when absent), disable_servo 0x0202, axis, and servo_speed 0x0203, axis,
\* speed; the axis word is the axis id of the topic.
C30_ServoWrites ==
    (ServoMessage /\ inflight[CB] # NoTx) =>
        /\ Len(inflight[CB].words) = IF HandlerOf(TopicParts) = "disable_servo_mode" THEN 2
                                     ELSE IF HandlerOf(TopicParts) = "set_servo_speed" THEN 3
                                     ELSE 4
        /\ inflight[CB] = [fn |-> "write_registers", addr |-> 0,
                           count |-> Len(inflight[CB].words),
                           words |-> ExpectedServoWords(inflight[CB].words),
                           slave |-> slave_id]

\* C31: the status read of a tick asks the configured device for one register
\* at the status register address, and the word the tick decodes is the content
\* of that register; the position read asks for the four registers from the
\* axis-0 position address on.
C31_PollerReads ==
    \A p \in Pollers :
        /\ ppc[p] = "status_wait" =>
               inflight[p] = [fn |-> "read_holding_registers", addr |-> STATUS_REG,
                              count |-> 1, words |-> <<>>, slave |-> slave_id]
        /\ tick[p].status_values # <<>> => tick[p].status_values[1] = regs[STATUS_REG]
        /\ ppc[p] = "pos_wait" =>
               inflight[p] = [fn |-> "read_holding_registers",
                              addr |-> AXIS0_POSITION_REG, count |-> 4,
                              words |-> <<>>, slave |-> slave_id]

AllPollersStopped == \A p \in Pollers : ppc[p] \in {"none", "dead"}

\* C32: once stop() has cleared the running flag and start() is not called
\* again, a poller that tests the flag stops there and no poller enters a new
\* iteration, so each poller finishes at most the tick it had passed the test
\* for; and under fair scheduling every poller has stopped in the end.
C32_CooperativeShutdown ==
    /\ [](StopRequested => ~running)
    /\ [][\A p \in Pollers :
            /\ (StopRequested /\ ppc[p] = "loop" /\ ppc'[p] # "loop") => ppc'[p] = "dead"
            /\ (StopRequested /\ ppc'[p] = "acquire") => ppc[p] = "acquire"]_vars
    /\ StopRequested ~> AllPollersStopped

\* stop() has returned while a poller was in its tick; the poller has finished
\* that tick and sleeps before the test that ends it
C32_Witness ==
    \E p \in Pollers :
        /\ StopReturned
        /\ ~running
        /\ ppc[p] = "sleep"
        /\ pub[p] # <<>>

\* the poll threads that are in their loop
ActivePollers == {p \in DOMAIN ppc : ppc[p] \notin {"none", "dead"}}

\* C33: at most one poll loop is active at any time, for every sequence of
\* start() and stop(): also after a second start() with no stop() between, and
\* after a start() that follows a stop() whose join timed out.
C33_OnePollerActive == Cardinality(ActivePollers) <= 1

\* stop() closes the link: disconnect() on a link that is connected
StopClosesLink == mpc = "stop_disconnect" /\ mpc' = "stop_mqtt" /\ connected

\* C34: stop() closes RegisterLink only when no register transaction is in
\* flight and neither a poller nor a command handler holds the lock.
C34_NoDisconnectInFlight ==
    [][StopClosesLink => (lock = 0 /\ Outstanding = {})]_vars

\* C35: every register transaction the bridge sends, a poller's read, a
\* command's write or the health-check read, is addressed to the configured
\* device id.
C35_AddressedToConfiguredDevice ==
    \A t \in DOMAIN inflight : inflight[t] # NoTx => inflight[t].slave = slave_id

\* a 16-bit register value
IsRegisterWord(w) == w.t = "int" /\ w.v \in 0..65535

\* C36: every word of a command's write is a 16-bit register value, in
\* 0..65535, whatever integers the payload carries for position, distance,
\* speed, acceleration, deceleration and max_speed.
C36_WordsAreRegisterValues ==
    inflight[CB] # NoTx =>
        \A i \in 1..Len(inflight[CB].words) : IsRegisterWord(inflight[CB].words[i])

\* C37: the low and high words an absolute move writes for a target position
\* p of the signed 32-bit range, combined as the poller combines two position
\* registers, give p again.
C37_PositionRoundTrip ==
    (MoveAbsoluteMessage /\ inflight[CB] # NoTx) =>
        Combine(<<inflight[CB].words[3].v, inflight[CB].words[4].v>>, 1)
            = PyInt(msg.body.fields["position"].v)

\* thread t sends a register transaction in this step
StartsTransaction(t) == inflight[t] = NoTx /\ inflight'[t] # NoTx

\* C38: the acknowledgment of a command is published after the command's own
\* write has ended, as the next acknowledgment after the writes made so far,
\* and no other register transaction, a poller's read or another command's
\* write, starts between the end of that write and the acknowledgment.
C38_AckFollowsWrite ==
    /\ [][Len(acks') > Len(acks) =>
            /\ cpc = "ack"
            /\ inflight[CB] = NoTx
            /\ Len(acks') = Len(writes)]_vars
    /\ [][cpc = "ack" => \A t \in DOMAIN inflight : ~StartsTransaction(t)]_vars

\* C39: once stop() has returned and every poller has stopped,
\* DeviceStatus.connected is false.
C39_StatusDisconnectedAfterStop ==
    (StopReturned /\ AllPollersStopped) => ~statusConnected

====
